---- MODULE Spec2Model ----
(***************************************************************************)
(* Realtime audio-to-transcript relay of backend/src/routes/transcription.ts *)
(* (attachRealtimeRelay): one client WebSocket connection, its per-socket   *)
(* closure state, the vendor (AssemblyAI) WebSocket, the optional ffmpeg     *)
(* transcoder and the persistence sinks (Supabase, ZeroEntropy).             *)
(*                                                                           *)
(* Every Node event-loop callback is one action.  An async function is cut  *)
(* at its awaits: the code up to the first await runs inside the calling     *)
(* action, each continuation is an action of its own.                        *)
(***************************************************************************)
EXTENDS Integers, Sequences, FiniteSets, Bags, TLC

\* ---------------------------------------------------------------- bounds
MaxMsgs == 3          \* client messages the relay acts on, per connection
MaxVendorEvents == 2  \* vendor messages the relay acts on, per connection
MaxSuspended == 2     \* closeWith invocations suspended at an await at one time
MaxSent == 3          \* vendor messages queued before a transcoder chunk is taken
MaxPairSteps == 5     \* events handled per connection when two are open at once
MaxNotifications == 3 \* BLE notifications the OmiClient receives
MaxStoreOps == 2      \* addTranscript / removeTranscript calls

\* ------------------------------------------------------- program constants
CodeNormal == 1000        \* closeWith(1000, 'normal')
CodeUnauthorized == 4401  \* ws.close(4401, ...)
CodeVendor == 4501        \* closeWith(4501, ...)
FrameBytes == 640         \* const frameBytes = 640
MAX_STORED_TRANSCRIPTS == 100

\* An event field that the vendor left out (undefined in JavaScript).
Absent == -1
\* The padding character '=' of base64, after the 64 digits 0..63.
Base64Pad == 64
\* OmiClient.currentPacketNo = null.
NullPacket == -1
\* The time value of an Invalid Date (NaN).
InvalidDate == -1
\* ChildProcess 'close' code of a process ended by a signal (null in Node).
SignalCode == -1
\* ChildProcess 'close' code after a failed launch (negative errno).
LaunchFailCode == -2

VARIABLES
    env,        \* process environment and injected synchronous faults (constant)
    conn,       \* "pending" | "rejected" | "accepted": wss.on('connection') outcome
    state,      \* the closure variable `state: StreamState | null`
    ws,         \* the client WebSocket
    aai,        \* the vendor WebSocket returned by connectAAI
    ff,         \* the ffmpeg child process
    sink,       \* calls made on SupabaseService and the ZeroEntropy client
    cw,         \* bag of the closeWith invocations suspended at an await
    clientOut,  \* JSON messages delivered to the client, in order
    appended,   \* segments pushed on state.finals, in push order (history)
    nMsgs,      \* client messages acted on so far (an ignored one changes nothing)
    nVendor,    \* vendor messages acted on so far
    failed,     \* some persistence call has been rejected so far (history)
    sessions,   \* the closures of two connections open at once (SpecPair only)
    ble,        \* the mobile app's BLEService and its OmiClient (SpecBle only)
    store       \* the mobile app's AsyncStorage item 'transcripts_v2' (SpecStore only)

vars == <<env, conn, state, ws, aai, ff, sink, cw, clientOut, appended, nMsgs, nVendor,
          failed, sessions, ble, store>>

\* ------------------------------------------------------------ data domains
TokenKinds == {"none", "invalid", "valid"}
MsgKinds == {"binary", "config_pcm16", "config_opus", "config_opus_bare", "garbage", "stop"}
\* Vendor transcript events.  A text is a sequence of tokens; the empty text is
\* also what `ev.text || ''` makes of a missing text.  One event has no
\* audio_start (read as 0), the other starts later and has no audio_end.
VendorEvents ==
    {[text |-> <<"a">>, audio_start |-> Absent, audio_end |-> 1],
     [text |-> <<>>, audio_start |-> 1, audio_end |-> Absent]}

\* StreamState literal of the connection handler; `null` marks state = null.
NewState ==
    [null |-> FALSE, configReceived |-> FALSE, closed |-> FALSE, finals |-> <<>>,
     aaiWs |-> FALSE, ffmpeg |-> FALSE, pcmForwarder |-> "none"]

NullState == [NewState EXCEPT !.null = TRUE]

\* ------------------------------------------------------------ pure helpers
\* `x ?? 0`
OrZero(x) == IF x = Absent THEN 0 ELSE x

\* Mutant of SortByStart: the segments are left in delivery order.
DeliveryOrder(segs) == segs

\* Array.prototype.sort((a,b) => a.start_ms - b.start_ms): stable, ascending.
RECURSIVE InsertByStart(_, _)
InsertByStart(sorted, seg) ==
    IF sorted = <<>> THEN <<seg>>
    ELSE IF Head(sorted).start_ms <= seg.start_ms
         THEN <<Head(sorted)>> \o InsertByStart(Tail(sorted), seg)
         ELSE <<seg>> \o sorted

RECURSIVE SortByStart(_)
SortByStart(segs) ==
    IF segs = <<>> THEN <<>>
    ELSE InsertByStart(SortByStart(SubSeq(segs, 1, Len(segs) - 1)), segs[Len(segs)])

\* Array.prototype.join(' ') over the texts; a text is a sequence of tokens.
RECURSIVE JoinSpace(_)
JoinSpace(texts) ==
    IF texts = <<>> THEN <<>>
    ELSE IF Len(texts) = 1 THEN texts[1]
    ELSE texts[1] \o <<" ">> \o JoinSpace(Tail(texts))

\* finals.sort(...).map(f => f.text).join(' ')
FullTranscript(finals) ==
    JoinSpace([i \in 1..Len(finals) |-> SortByStart(finals)[i].text])

\* ------------------------------------------------------------------- Init
InitEnv(faults) ==
    env \in [token : TokenKinds, supabase : BOOLEAN, zeKey : BOOLEAN,
             killThrows : faults, zeCtorThrows : faults]

InitRest ==
    /\ conn = "pending"
    /\ state = NullState
    /\ ws = [readyState |-> "OPEN", code |-> 0, reason |-> "", closeEmitted |-> FALSE]
    /\ aai = [status |-> "none", opened |-> FALSE, created |-> 0, encoding |-> "none",
              sent |-> <<>>]
    /\ ff = [status |-> "none", handlers |-> FALSE, spawned |-> 0, kills |-> 0,
             stdin |-> <<>>, stdinEnded |-> FALSE, errorEmitted |-> FALSE]
    /\ sink = [startCalls |-> 0, addFinal |-> <<>>, docs |-> <<>>, endCalls |-> 0]
    /\ cw = EmptyBag
    /\ clientOut = <<>>
    /\ appended = <<>>
    /\ nMsgs = 0
    /\ nVendor = 0
    /\ failed = FALSE

\* One connection only: there is no second closure.
Unpaired == sessions = <<>>

\* BLEService and OmiClient as constructed, with a device connected whose
\* codec is PCM16 (the mu-law decoder is not part of these sources).
InitBle ==
    [isStreaming |-> FALSE, pcmBuffers |-> <<>>, subscribed |-> FALSE, onFrame |-> FALSE,
     currentPacketNo |-> NullPacket, chunkMap |-> <<>>, emitted |-> <<>>, flushed |-> <<>>,
     delivered |-> <<>>, notifications |-> 0]

\* AsyncStorage without the item, and no call made yet.
InitStore == [item |-> <<>>, present |-> FALSE, ops |-> 0]

\* The mobile services are not running.
MobileIdle == ble = InitBle /\ store = InitStore

Init == InitEnv({FALSE}) /\ InitRest /\ Unpaired /\ MobileIdle

InitFaults == InitEnv(BOOLEAN) /\ InitRest /\ Unpaired /\ MobileIdle

\* ------------------------------------------------- the machine as a value
\* Handlers are composed from the operators below, each taking and returning
\* the record of everything a handler can touch.
Cur == [state |-> state, ws |-> ws, aai |-> aai, ff |-> ff, sink |-> sink,
        cw |-> cw, out |-> clientOut, appended |-> appended]

Become(m) ==
    /\ BagCardinality(m.cw) <= MaxSuspended
    /\ state' = m.state
    /\ ws' = m.ws
    /\ aai' = m.aai
    /\ ff' = m.ff
    /\ sink' = m.sink
    /\ cw' = m.cw
    /\ clientOut' = m.out
    /\ appended' = m.appended
    /\ sessions' = sessions
    /\ ble' = ble
    /\ store' = store

\* Mutant of WsClose: a later close() replaces the code of a closing socket.
WsCloseOverwrites(m, code, reason) ==
    IF m.ws.readyState \in {"OPEN", "CLOSING"}
    THEN [m EXCEPT !.ws.readyState = "CLOSING", !.ws.code = code, !.ws.reason = reason]
    ELSE m

\* ws.close(code, reason) of the `ws` library: only an OPEN socket starts the
\* closing handshake; on a CLOSING or CLOSED socket the call does nothing.
WsClose(m, code, reason) ==
    IF m.ws.readyState = "OPEN"
    THEN [m EXCEPT !.ws.readyState = "CLOSING", !.ws.code = code, !.ws.reason = reason]
    ELSE m

\* Mutant of SendJson: the message overtakes the ones sent before it.
SendJsonFirst(m, obj) ==
    IF m.ws.readyState = "OPEN" THEN [m EXCEPT !.out = <<obj>> \o @] ELSE m

\* sendJson: ws.send inside try; a socket that is not OPEN delivers nothing.
SendJson(m, obj) ==
    IF m.ws.readyState = "OPEN" THEN [m EXCEPT !.out = Append(@, obj)] ELSE m

\* aaiWs.send(...): delivered only on an OPEN vendor socket (it throws while
\* CONNECTING, which every caller that can meet it swallows, and is dropped
\* once the socket is closing).
AaiSend(m, msg) ==
    IF m.aai.status = "OPEN" THEN [m EXCEPT !.aai.sent = Append(@, msg)] ELSE m

\* aaiWs.close(): starts closing an OPEN socket, aborts a CONNECTING one.
AaiClose(m) ==
    [m EXCEPT !.aai.status = IF @ \in {"CONNECTING", "OPEN"} THEN "CLOSING" ELSE @]

\* ffmpeg.kill('SIGKILL')
FfKill(m) ==
    [m EXCEPT !.ff.kills = @ + 1,
              !.ff.status = IF @ = "running" THEN "killed" ELSE @]

\* SupabaseService.endSession(state.sessionId), then `await`.
InvokeEndSession(m) ==
    [m EXCEPT !.sink.endCalls = @ + 1,
              !.cw = @ (+) SetToBag({[pc |-> "endSession", full |-> <<>>, n |-> 0]})]

\* Lines 322-347 up to the first await: the persistence block of closeWith.
CloseWithPersist(m) ==
    IF ~m.state.null /\ Len(m.state.finals) > 0
    THEN LET full == FullTranscript(m.state.finals)
             m1 == [m EXCEPT !.state.finals = SortByStart(@)]
         IN IF env.zeKey
            THEN IF env.zeCtorThrows
                 THEN [m1 EXCEPT !.state = NullState]
                 ELSE [m1 EXCEPT !.cw = @ (+) SetToBag({[pc |-> "collAdd", full |-> full,
                                                         n |-> Len(m.state.finals)]})]
            ELSE InvokeEndSession(m1)
    ELSE IF ~m.state.null
         THEN InvokeEndSession(m)
         ELSE m

\* closeWith(code, reason), lines 317-348, up to its first await.
CloseWith(m, code, reason) ==
    LET m1 == WsClose(m, code, reason)
        hasFf == ~m1.state.null /\ m1.state.ffmpeg
    IN IF hasFf /\ env.killThrows
       THEN [m1 EXCEPT !.ff.kills = @ + 1]
       ELSE LET m2 == IF hasFf THEN FfKill(m1) ELSE m1
                m3 == IF ~m2.state.null /\ m2.state.aaiWs THEN AaiClose(m2) ELSE m2
            IN CloseWithPersist(m3)

\* ------------------------------------------------------------ connection
\* Mutant of VerifyJwtThrows: no token is refused.
VerifyJwtAccepts(token) == FALSE

\* verifyJwt: jwt.verify throws on a bad signature or an expired token.  The
\* payload of a verified token is returned field by field, unexamined, so a
\* "malformed" token (good signature, wrong payload shape) does not throw.
VerifyJwtThrows(token) == token = "invalid"

\* wss.on('connection'), lines 284-311: the token check and state creation.
\* Only an accepted connection gets the message and close handlers.
Connection ==
    /\ conn = "pending"
    /\ IF env.token = "none" \/ VerifyJwtThrows(env.token)
       THEN /\ conn' = "rejected"
            /\ Become(WsClose(Cur, CodeUnauthorized, "Unauthorized"))
       ELSE /\ conn' = "accepted"
            /\ Become([Cur EXCEPT !.state = NewState])
    /\ UNCHANGED <<env, nMsgs, nVendor, failed>>

\* ------------------------------------------------------- client messages
\* ConfigSchema.parse(JSON.parse(text)): which text messages are a config.
\* JSON.parse of a text message: the fields the handler looks at.  "garbage"
\* is not JSON, "stop" is { type: 'stop' }, "config_opus_bare" is an opus
\* config without a container field.
ParsedText(kind) ==
    [json |-> kind # "garbage",
     type |-> IF kind = "stop" THEN "stop"
              ELSE IF kind = "garbage" THEN "none" ELSE "config",
     source |-> IF kind \in {"stop", "garbage"} THEN "none" ELSE "phone",
     encoding |-> IF kind = "config_pcm16" THEN "pcm16"
                  ELSE IF kind \in {"config_opus", "config_opus_bare"} THEN "opus"
                  ELSE "none",
     container |-> IF kind = "config_opus" THEN "webm" ELSE "none",
     sample_rate |-> IF kind \in {"stop", "garbage"} THEN 0 ELSE 16000]

\* ConfigSchema.parse(JSON.parse(text)) does not throw: lines 223-234.  The
\* container is optional whatever the encoding.
ConfigSchemaOk(kind) ==
    LET cfg == ParsedText(kind)
    IN /\ cfg.json
       /\ cfg.type = "config"
       /\ cfg.source \in {"phone", "omi"}
       /\ cfg.encoding \in {"pcm16", "opus"}
       /\ cfg.container \in {"none", "raw", "ogg", "webm"}
       /\ cfg.sample_rate > 0

ConfigEncoding(kind) == ParsedText(kind).encoding

\* connectAAI(...): a new vendor socket, CONNECTING; state.aaiWs = aai.
ConnectAAI(m, kind) ==
    [m EXCEPT !.state.configReceived = TRUE,
              !.state.aaiWs = TRUE,
              !.aai.status = "CONNECTING",
              !.aai.opened = FALSE,
              !.aai.created = @ + 1,
              !.aai.encoding = ConfigEncoding(kind)]

\* Lines 353-445: the first message must be a config.
OnFirstMessage(m, kind) ==
    IF kind = "binary"
    THEN CloseWith(m, CodeUnauthorized, "Expected config")
    ELSE IF ConfigSchemaOk(kind)
         THEN ConnectAAI(m, kind)
         ELSE CloseWith(m, CodeUnauthorized, "Bad config")

\* The bytes of the client's binary message number `id`: 1 to 3 bytes.
ClientFrame(id) == [i \in 1..((id % 3) + 1) |-> (97 * i + 61 * id) % 256]

\* The base64 digits of at most three bytes, padded to four characters.
Base64Group(b) ==
    IF Len(b) = 1
    THEN <<b[1] \div 4, (b[1] % 4) * 16, Base64Pad, Base64Pad>>
    ELSE IF Len(b) = 2
         THEN <<b[1] \div 4, (b[1] % 4) * 16 + (b[2] \div 16), (b[2] % 16) * 4, Base64Pad>>
         ELSE <<b[1] \div 4, (b[1] % 4) * 16 + (b[2] \div 16),
                (b[2] % 16) * 4 + (b[3] \div 64), b[3] % 64>>

\* Mutant of Base64: only whole groups of three bytes are encoded.
RECURSIVE Base64WholeGroups(_)
Base64WholeGroups(bytes) ==
    IF Len(bytes) < 3 THEN <<>>
    ELSE Base64Group(SubSeq(bytes, 1, 3)) \o Base64WholeGroups(SubSeq(bytes, 4, Len(bytes)))

\* chunk.toString('base64'), as the sequence of digits 0..63 and padding.
RECURSIVE Base64(_)
Base64(bytes) ==
    IF bytes = <<>> THEN <<>>
    ELSE IF Len(bytes) <= 3 THEN Base64Group(bytes)
    ELSE Base64Group(SubSeq(bytes, 1, 3)) \o Base64(SubSeq(bytes, 4, Len(bytes)))

\* Mutant of Forward: a frame that finds no forwarder installed is kept for
\* the transcoder instead of being dropped.
ForwardKept(m, frame) ==
    IF m.state.pcmForwarder = "pcm16"
    THEN AaiSend(m, [type |-> "audio", data |-> Base64(ClientFrame(frame))])
    ELSE [m EXCEPT !.ff.stdin = Append(@, frame)]

\* state.pcmForwarder(chunk), lines 405-408 and 435-437.  `frame` numbers the
\* client's binary message; the pcm16 forwarder sends its bytes in base64.
Forward(m, frame) ==
    IF m.state.pcmForwarder = "pcm16"
    THEN AaiSend(m, [type |-> "audio", data |-> Base64(ClientFrame(frame))])
    ELSE IF m.state.pcmForwarder = "opus"
         THEN IF m.ff.status = "running" /\ ~m.ff.stdinEnded
              THEN [m EXCEPT !.ff.stdin = Append(@, frame)]
              ELSE m
         ELSE m

\* { terminate_session: true }
Terminate == [type |-> "terminate", data |-> 0]

\* Mutant of OnLaterMessage: a config-shaped message after the config is
\* accepted again.
OnLaterMessageReconfig(m, kind, frame) ==
    IF kind = "binary"
    THEN Forward(m, frame)
    ELSE IF kind = "stop"
         THEN CloseWith(AaiSend(m, Terminate), CodeNormal, "normal")
         ELSE IF ConfigSchemaOk(kind) THEN ConnectAAI(m, kind) ELSE m

\* Mutant of OnLaterMessage: on stop the teardown runs before the termination
\* message is sent.
OnLaterMessageCloseFirst(m, kind, frame) ==
    IF kind = "binary"
    THEN Forward(m, frame)
    ELSE IF kind = "stop"
         THEN AaiSend(CloseWith(m, CodeNormal, "normal"), Terminate)
         ELSE m

\* Mutant of OnLaterMessage: a text message that is not a stop is refused.
OnLaterMessageStrict(m, kind, frame) ==
    IF kind = "binary"
    THEN Forward(m, frame)
    ELSE IF kind = "stop"
         THEN CloseWith(AaiSend(m, Terminate), CodeNormal, "normal")
         ELSE CloseWith(m, CodeUnauthorized, "Bad config")

\* Lines 447-458: audio frames and control messages after the config.
OnLaterMessage(m, kind, frame) ==
    IF kind = "binary"
    THEN Forward(m, frame)
    ELSE IF kind = "stop"
         THEN CloseWith(AaiSend(m, Terminate), CodeNormal, "normal")
         ELSE m

\* ws.on('message'), lines 350-459.
OnMessage(m, kind, frame) ==
    IF m.state.null \/ m.state.closed
    THEN m
    ELSE IF ~m.state.configReceived
         THEN OnFirstMessage(m, kind)
         ELSE OnLaterMessage(m, kind, frame)

\* The client's next message is delivered.  The `ws` library keeps emitting
\* 'message' after ws.close() until the closing handshake has completed.
ClientMessageOf(kind) ==
    /\ conn = "accepted"
    /\ ~ws.closeEmitted
    /\ nMsgs < MaxMsgs
    /\ LET m == OnMessage(Cur, kind, nMsgs + 1)
       IN /\ Become(m)
          /\ nMsgs' = IF m = Cur THEN nMsgs ELSE nMsgs + 1
    /\ UNCHANGED <<env, conn, nVendor, failed>>

ClientMessage == \E kind \in MsgKinds : ClientMessageOf(kind)

\* ws.on('close'), lines 461-468: the client socket has closed (the client
\* closed or was lost, or the handshake the relay started has completed).
OnWsClose(m) ==
    IF m.state.null
    THEN m
    ELSE LET m1 == [m EXCEPT !.state.closed = TRUE]
             m2 == IF m1.state.aaiWs
                   THEN AaiClose(AaiSend(m1, Terminate))
                   ELSE m1
         IN IF m2.state.ffmpeg
            THEN IF env.killThrows
                 THEN [m2 EXCEPT !.ff.stdinEnded = TRUE, !.ff.kills = @ + 1]
                 ELSE FfKill([m2 EXCEPT !.ff.stdinEnded = TRUE])
            ELSE m2

WsCloseEvent ==
    /\ conn = "accepted"
    /\ ~ws.closeEmitted
    /\ Become(OnWsClose([Cur EXCEPT !.ws.readyState = "CLOSED",
                                    !.ws.closeEmitted = TRUE]))
    /\ UNCHANGED <<env, conn, nMsgs, nVendor, failed>>

\* --------------------------------------------------------- vendor events
\* new Segment from a vendor event: `ev.audio_start ?? 0`, `ev.audio_end ?? 0`.
SegmentOf(ev) ==
    [text |-> ev.text, start_ms |-> OrZero(ev.audio_start), end_ms |-> OrZero(ev.audio_end)]

\* spawn(ffmpegPath, args, ...) and the handlers of lines 422-437.  With
\* state = null the assignment after spawn throws: the process runs unowned.
SpawnFfmpeg(m, launched) ==
    LET m1 == [m EXCEPT !.ff.spawned = @ + 1,
                        !.ff.status = IF launched THEN "running" ELSE "spawnfail"]
    IN IF m.state.null
       THEN m1
       ELSE [m1 EXCEPT !.ff.handlers = TRUE,
                       !.state.ffmpeg = TRUE,
                       !.state.pcmForwarder = "opus"]

\* The fire-and-forget startSession of lines 396-402.  `ok` is how its promise
\* will settle; a rejection ends in the empty catch of line 401.
InvokeStartSession(m, ok) ==
    IF env.supabase /\ ~m.state.null
    THEN [m EXCEPT !.sink.startCalls = @ + 1]
    ELSE m

\* aai.on('open'), lines 394-439.
OnAaiOpen(m, launched, ok) ==
    LET m1 == InvokeStartSession(m, ok)
    IN IF m1.aai.encoding = "pcm16"
       THEN IF m1.state.null THEN m1 ELSE [m1 EXCEPT !.state.pcmForwarder = "pcm16"]
       ELSE SpawnFfmpeg(m1, launched)

\* The vendor socket opens; `launched` is whether ffmpeg can be started and
\* `ok` how the startSession promise settles.
VendorOpenOf(launched, ok) ==
    /\ aai.status = "CONNECTING"
    /\ Become(OnAaiOpen([Cur EXCEPT !.aai.status = "OPEN", !.aai.opened = TRUE],
                        launched, ok))
    /\ UNCHANGED <<env, conn, nMsgs, nVendor>>

VendorOpen ==
    \E launched \in BOOLEAN, ok \in BOOLEAN :
        /\ VendorOpenOf(launched, ok)
        /\ failed' = (failed \/ (~ok /\ env.supabase /\ ~state.null))

\* The fire-and-forget addFinalSegment of lines 379-385.  `ok` is how its
\* promise will settle; a rejection ends in the empty catch of line 384.
InvokeAddFinalSegment(m, seg, ok) ==
    IF env.supabase /\ ~m.state.null
    THEN [m EXCEPT !.sink.addFinal = Append(@, seg)]
    ELSE m

\* Mutant of OnPartial: the partial is also kept as a segment.
OnPartialRecorded(m, ev) ==
    LET m1 == IF m.state.null THEN m
              ELSE [m EXCEPT !.state.finals = Append(@, SegmentOf(ev)),
                             !.appended = Append(@, SegmentOf(ev))]
    IN SendJson(m1, [type |-> "partial", text |-> ev.text,
                     start_ms |-> OrZero(ev.audio_start), end_ms |-> OrZero(ev.audio_end)])

\* Lines 367-370.
OnPartial(m, ev) ==
    SendJson(m, [type |-> "partial", text |-> ev.text,
                 start_ms |-> OrZero(ev.audio_start), end_ms |-> OrZero(ev.audio_end)])

\* Mutant of OnFinal: the segment is kept and persisted but the 'final'
\* message is not sent to the client.
OnFinalUnsent(m, ev, ok) ==
    LET seg == SegmentOf(ev)
        m1 == IF m.state.null THEN m
              ELSE [m EXCEPT !.state.finals = Append(@, seg),
                             !.appended = Append(@, seg)]
    IN InvokeAddFinalSegment(m1, seg, ok)

\* Lines 371-385.
OnFinal(m, ev, ok) ==
    LET seg == SegmentOf(ev)
        m1 == IF m.state.null THEN m
              ELSE [m EXCEPT !.state.finals = Append(@, seg),
                             !.appended = Append(@, seg)]
        m2 == SendJson(m1, [type |-> "final", text |-> seg.text,
                            start_ms |-> seg.start_ms, end_ms |-> seg.end_ms])
    IN InvokeAddFinalSegment(m2, seg, ok)

\* Mutant of OnVendorError: the relay connects to the vendor again.
OnVendorErrorReconnects(m) ==
    IF m.state.null THEN m ELSE ConnectAAI(m, "config_pcm16")

\* Lines 386-388: a vendor message carrying `error`.
OnVendorError(m) == CloseWith(m, CodeVendor, "vendor error")

\* A vendor socket delivers messages from its open until it is closed, also
\* after the relay has called close() on it.
VendorDelivers == aai.opened /\ aai.status \in {"OPEN", "CLOSING"} /\ nVendor < MaxVendorEvents

\* The handler's result, counted when the message changed anything.
Delivered(m) ==
    /\ Become(m)
    /\ nVendor' = IF m = Cur THEN nVendor ELSE nVendor + 1
    /\ UNCHANGED <<env, conn, nMsgs>>

VendorPartialOf(ev) == VendorDelivers /\ Delivered(OnPartial(Cur, ev))

VendorPartial == \E ev \in VendorEvents : VendorPartialOf(ev) /\ UNCHANGED failed

\* A final transcript event; `ok` is how the addFinalSegment promise settles.
VendorFinalOf(ev, ok) == VendorDelivers /\ Delivered(OnFinal(Cur, ev, ok))

VendorFinal ==
    \E ev \in VendorEvents, ok \in BOOLEAN :
        /\ VendorFinalOf(ev, ok)
        /\ failed' = (failed \/ (~ok /\ env.supabase /\ ~state.null))

VendorErrorMessage ==
    /\ VendorDelivers
    /\ Delivered(OnVendorError(Cur))
    /\ UNCHANGED failed

\* aaiWs.on('error', onError), lines 267 and 389-391: a transport error, once
\* per socket; the socket is closed by it.
VendorTransportError ==
    /\ aai.status \in {"CONNECTING", "OPEN", "CLOSING"}
    /\ Become(CloseWith([Cur EXCEPT !.aai.status = "CLOSED"],
                        CodeVendor, "vendor error"))
    /\ UNCHANGED <<env, conn, nMsgs, nVendor, failed>>

\* The vendor socket closes without an error: connectAAI registers no 'close'
\* listener, so no handler runs.
VendorDrop ==
    /\ aai.status \in {"OPEN", "CLOSING"}
    /\ aai' = [aai EXCEPT !.status = "CLOSED"]
    /\ UNCHANGED <<env, conn, state, ws, ff, sink, cw, clientOut, appended, nMsgs, nVendor,
                   failed, sessions, ble, store>>

\* ------------------------------------------------------ transcoder events
\* ff.on('error', ...), line 424: the launch failed.
FfErrorEvent ==
    /\ ff.status = "spawnfail"
    /\ ~ff.errorEmitted
    /\ LET m == [Cur EXCEPT !.ff.errorEmitted = TRUE]
       IN Become(IF ff.handlers THEN CloseWith(m, CodeVendor, "decoder error") ELSE m)
    /\ UNCHANGED <<env, conn, nMsgs, nVendor, failed>>

\* Mutant of OnFfClose: a nonzero exit is not treated as an error.
OnFfCloseIgnored(m, code) == m

\* ff.on('close', code => ...), line 425.
OnFfClose(m, code) ==
    IF ~(~m.state.null /\ m.state.closed) /\ code # 0
    THEN CloseWith(m, CodeVendor, "decoder exit")
    ELSE m

\* Exit codes the 'close' event can carry in the process's current condition.
FfCloseCodes ==
    IF ff.status = "running" THEN {0, 1}
    ELSE IF ff.status = "killed" THEN {SignalCode}
    ELSE {LaunchFailCode}

FfCloseOf(code) ==
    /\ ff.status \in {"running", "killed", "spawnfail"}
    /\ ff.status = "spawnfail" => ff.errorEmitted
    /\ code \in FfCloseCodes
    /\ LET m == [Cur EXCEPT !.ff.status = "exited"]
       IN Become(IF ff.handlers THEN OnFfClose(m, code) ELSE m)
    /\ UNCHANGED <<env, conn, nMsgs, nVendor, failed>>

FfCloseEvent == \E code \in {0, 1, SignalCode, LaunchFailCode} : FfCloseOf(code)

\* Mutant of Subarrays: only whole frames are cut, a shorter rest is left out.
RECURSIVE SubarraysWhole(_, _)
SubarraysWhole(i, pcmLength) ==
    IF i + FrameBytes > pcmLength THEN <<>>
    ELSE <<[from |-> i, to |-> i + FrameBytes]>> \o SubarraysWhole(i + FrameBytes, pcmLength)

\* for (let i = 0; i < pcm.length; i += frameBytes)
\*     pcm.subarray(i, Math.min(i + frameBytes, pcm.length))
\* from `i` on: the byte ranges [from, to) of the slices, in order.
RECURSIVE Subarrays(_, _)
Subarrays(i, pcmLength) ==
    IF i >= pcmLength THEN <<>>
    ELSE <<[from |-> i,
            to |-> IF i + FrameBytes <= pcmLength THEN i + FrameBytes ELSE pcmLength]>>
         \o Subarrays(i + FrameBytes, pcmLength)

\* The lengths of the slices.
SliceLengths(from, pcmLength) ==
    LET subs == Subarrays(from, pcmLength)
    IN [k \in 1..Len(subs) |-> subs[k].to - subs[k].from]

\* aai.send per slice, in order; an audio message carries its length in bytes.
RECURSIVE SendSlices(_, _)
SendSlices(m, lengths) ==
    IF lengths = <<>> THEN m
    ELSE SendSlices(AaiSend(m, [type |-> "audio", data |-> Head(lengths)]), Tail(lengths))

\* ff.stdout.on('data', pcm => ...), lines 426-434.
OnFfStdoutData(m, pcmLength) == SendSlices(m, SliceLengths(0, pcmLength))

\* Sizes of the chunks the transcoder's stdout pipe delivers.
ChunkLengths == {320, FrameBytes, 1000, 2 * FrameBytes}

\* The transcoder writes a chunk of PCM on its stdout.
FfStdoutDataOf(pcmLength) ==
    /\ ff.status = "running"
    /\ ff.handlers
    /\ Len(aai.sent) < MaxSent
    /\ pcmLength \in ChunkLengths
    /\ Become(OnFfStdoutData(Cur, pcmLength))
    /\ UNCHANGED <<env, conn, nMsgs, nVendor, failed>>

FfStdoutData == \E pcmLength \in ChunkLengths : FfStdoutDataOf(pcmLength)

\* ------------------------------------------------ closeWith continuations
\* The suspended invocation `e` moves on to the await at `pc`, or ends.
Moved(m, e, pc) == [m EXCEPT !.cw = (@ (-) SetToBag({e})) (+) SetToBag({[e EXCEPT !.pc = pc]})]

Ended(m, e) == [m EXCEPT !.cw = @ (-) SetToBag({e})]

\* Lines 343-347 of a closeWith invocation: `if (state) await endSession(...)`,
\* else the function ends with `state = null`.
CloseWithTail(m, e) ==
    IF ~m.state.null
    THEN Moved([m EXCEPT !.sink.endCalls = @ + 1], e, "endSession")
    ELSE Ended(m, e)

\* `await client.collections.add(...)` settles (line 332; a rejection is
\* swallowed).  Lines 333-339 follow: documents.add is called with `full`,
\* unless building its argument throws because state is null by now.
AfterCollectionsAdd(m, e, ok) ==
    IF ~m.state.null
    THEN Moved([m EXCEPT !.sink.docs = Append(@, [text |-> e.full, n |-> e.n])], e, "docAdd")
    ELSE CloseWithTail(m, e)

\* Mutant of AfterDocumentsAdd: a rejection is not swallowed by an inner catch
\* and reaches the outer one, which skips endSession.
AfterDocumentsAddRethrown(m, e, ok) ==
    IF ok THEN CloseWithTail(m, e) ELSE Ended([m EXCEPT !.state = NullState], e)

\* `await client.documents.add(...)` settles (line 340 swallows a rejection).
AfterDocumentsAdd(m, e, ok) == CloseWithTail(m, e)

\* `await SupabaseService.endSession(...)` settles (line 346 swallows a
\* rejection); line 347: state = null.
AfterEndSession(m, e, ok) == Ended([m EXCEPT !.state = NullState], e)

\* The awaited call of the suspended invocation `e` settles: fulfilled (ok)
\* or rejected.
Resumed(m, e, ok) ==
    IF e.pc = "collAdd" THEN AfterCollectionsAdd(m, e, ok)
    ELSE IF e.pc = "docAdd" THEN AfterDocumentsAdd(m, e, ok)
    ELSE AfterEndSession(m, e, ok)

ResumeOf(e, ok) ==
    /\ e \in BagToSet(cw)
    /\ Become(Resumed(Cur, e, ok))
    /\ UNCHANGED <<env, conn, nMsgs, nVendor>>

CloseWithResumes ==
    \E e \in BagToSet(cw), ok \in BOOLEAN :
        /\ ResumeOf(e, ok)
        /\ failed' = (failed \/ ~ok)

\* ---------------------------------------------------------- specification
Next ==
    \/ Connection
    \/ ClientMessage
    \/ WsCloseEvent
    \/ VendorOpen
    \/ VendorPartial
    \/ VendorFinal
    \/ VendorErrorMessage
    \/ VendorTransportError
    \/ VendorDrop
    \/ FfErrorEvent
    \/ FfCloseEvent
    \/ CloseWithResumes

Spec == Init /\ [][Next]_vars

\* The same program with the synchronous faults of the teardown path injected:
\* ffmpeg.kill throwing and the ZeroEntropy constructor throwing.
SpecFaults == InitFaults /\ [][Next]_vars

\* The same program reached with a token whose signature and expiry verify but
\* whose payload lacks the fields verifyJwt picks from it.
InitTokens ==
    /\ env \in [token : {"malformed"}, supabase : BOOLEAN, zeKey : BOOLEAN,
                 killThrows : {FALSE}, zeCtorThrows : {FALSE}]
    /\ InitRest
    /\ Unpaired
    /\ MobileIdle

SpecTokens == InitTokens /\ [][Next]_vars

\* The opus path once it is set up (config accepted, vendor socket open,
\* ffmpeg launched and its handlers attached), fed by the transcoder's output.
TranscoderStarted ==
    /\ env \in [token : {"valid"}, supabase : BOOLEAN, zeKey : BOOLEAN,
                 killThrows : {FALSE}, zeCtorThrows : {FALSE}]
    /\ conn = "accepted"
    /\ state = [NewState EXCEPT !.configReceived = TRUE, !.aaiWs = TRUE,
                                !.ffmpeg = TRUE, !.pcmForwarder = "opus"]
    /\ ws = [readyState |-> "OPEN", code |-> 0, reason |-> "", closeEmitted |-> FALSE]
    /\ aai = [status |-> "OPEN", opened |-> TRUE, created |-> 1, encoding |-> "opus",
              sent |-> <<>>]
    /\ ff = [status |-> "running", handlers |-> TRUE, spawned |-> 1, kills |-> 0,
             stdin |-> <<>>, stdinEnded |-> FALSE, errorEmitted |-> FALSE]
    /\ sink = [startCalls |-> IF env.supabase THEN 1 ELSE 0, addFinal |-> <<>>,
               docs |-> <<>>, endCalls |-> 0]
    /\ cw = EmptyBag
    /\ clientOut = <<>>
    /\ appended = <<>>
    /\ nMsgs = 1
    /\ nVendor = 0
    /\ failed \in (IF env.supabase THEN BOOLEAN ELSE {FALSE})
    /\ Unpaired
    /\ MobileIdle

NextSplitter == FfStdoutData \/ VendorDrop

SpecSplitter == TranscoderStarted /\ [][NextSplitter]_vars

\* ------------------------------------------------------ two connections
\* wss.on('connection') runs once per connection: `state`, sendJson, closeWith
\* and the handlers it registers are local to that call (lines 284-315), and
\* the vendor socket and the transcoder are created inside those handlers.
\* Two connections accepted with valid tokens are two such closures, run by
\* the same handler code; process.env is the one thing they share.  The sink
\* of a closure is the calls made with that connection's session id.
PairIds == {1, 2}

\* The closure of a connection that wss.on('connection') has just accepted.
InitSession ==
    [state |-> NewState,
     ws |-> [readyState |-> "OPEN", code |-> 0, reason |-> "", closeEmitted |-> FALSE],
     aai |-> [status |-> "none", opened |-> FALSE, created |-> 0, encoding |-> "none",
              sent |-> <<>>],
     ff |-> [status |-> "none", handlers |-> FALSE, spawned |-> 0, kills |-> 0,
             stdin |-> <<>>, stdinEnded |-> FALSE, errorEmitted |-> FALSE],
     sink |-> [startCalls |-> 0, addFinal |-> <<>>, docs |-> <<>>, endCalls |-> 0],
     cw |-> EmptyBag, out |-> <<>>, appended |-> <<>>, steps |-> 0]

InitPair ==
    /\ env \in [token : {"valid"}, supabase : BOOLEAN, zeKey : {TRUE},
                 killThrows : {FALSE}, zeCtorThrows : {FALSE}]
    /\ InitRest
    /\ sessions = [s \in PairIds |-> InitSession]
    /\ MobileIdle

\* Mutant of Closure: `state` is one variable of the module, the one the
\* first connection created, instead of a local of each connection.
ClosureShared(ss, s) == [ss[s] EXCEPT !.state = ss[1].state]

\* What the handlers of connection `s` read and write.
Closure(ss, s) == ss[s]

\* The final transcript event of the vendor socket of connection `s`.
PairEvent(s) ==
    [text |-> <<IF s = 1 THEN "a" ELSE "b">>, audio_start |-> s, audio_end |-> s + 1]

\* A handler of connection `s` has run and left its closure as `m`.
PairStep(s, m) ==
    /\ sessions[s].steps < MaxPairSteps
    /\ m # Closure(sessions, s)
    /\ sessions' = [sessions EXCEPT ![s] = [m EXCEPT !.steps = @ + 1]]
    /\ UNCHANGED <<env, conn, state, ws, aai, ff, sink, cw, clientOut, appended, nMsgs,
                   nVendor, failed, ble, store>>

PairClientMessageOf(s) ==
    LET c == Closure(sessions, s)
    IN /\ ~c.ws.closeEmitted
       /\ \E kind \in {"config_pcm16", "stop"} : PairStep(s, OnMessage(c, kind, c.steps + 1))

PairClientMessage == \E s \in PairIds : PairClientMessageOf(s)

PairWsCloseOf(s) ==
    LET c == Closure(sessions, s)
    IN /\ ~c.ws.closeEmitted
       /\ PairStep(s, OnWsClose([c EXCEPT !.ws.readyState = "CLOSED",
                                          !.ws.closeEmitted = TRUE]))

PairWsClose == \E s \in PairIds : PairWsCloseOf(s)

PairVendorOpenOf(s) ==
    LET c == Closure(sessions, s)
    IN /\ c.aai.status = "CONNECTING"
       /\ PairStep(s, OnAaiOpen([c EXCEPT !.aai.status = "OPEN", !.aai.opened = TRUE],
                                TRUE, TRUE))

PairVendorOpen == \E s \in PairIds : PairVendorOpenOf(s)

PairVendorFinalOf(s) ==
    LET c == Closure(sessions, s)
    IN /\ c.aai.opened
       /\ c.aai.status \in {"OPEN", "CLOSING"}
       /\ PairStep(s, OnFinal(c, PairEvent(s), TRUE))

PairVendorFinal == \E s \in PairIds : PairVendorFinalOf(s)

PairVendorErrorOf(s) ==
    LET c == Closure(sessions, s)
    IN /\ c.aai.opened
       /\ c.aai.status \in {"OPEN", "CLOSING"}
       /\ PairStep(s, OnVendorError(c))

PairVendorError == \E s \in PairIds : PairVendorErrorOf(s)

PairResumeOf(s) ==
    LET c == Closure(sessions, s)
    IN \E e \in BagToSet(c.cw) : PairStep(s, Resumed(c, e, TRUE))

PairResume == \E s \in PairIds : PairResumeOf(s)

NextPair ==
    \/ PairClientMessage
    \/ PairWsClose
    \/ PairVendorOpen
    \/ PairVendorFinal
    \/ PairVendorError
    \/ PairResume

SpecPair == InitPair /\ [][NextPair]_vars

\* --------------------------------------------- mobile: OmiClient, BLEService
\* The relay is not involved: its variables keep their initial values.
RelayIdle ==
    /\ env = [token |-> "none", supabase |-> FALSE, zeKey |-> FALSE,
              killThrows |-> FALSE, zeCtorThrows |-> FALSE]
    /\ InitRest
    /\ Unpaired

UNCHANGED_Relay ==
    UNCHANGED <<env, conn, state, ws, aai, ff, sink, cw, clientOut, appended, nMsgs,
                nVendor, failed, sessions>>

\* The sequences of a sequence, one after the other.
RECURSIVE ConcatAll(_)
ConcatAll(seqs) == IF seqs = <<>> THEN <<>> ELSE Head(seqs) \o ConcatAll(Tail(seqs))

\* Map.set(chunkIdx, payload) on the chunks of one packet.  A Map keeps its
\* keys in insertion order; setting an existing key keeps its place.
MapSet(parts, chunkIdx, payload) ==
    IF \E i \in DOMAIN parts : parts[i].idx = chunkIdx
    THEN [i \in DOMAIN parts |->
             IF parts[i].idx = chunkIdx THEN [idx |-> chunkIdx, payload |-> payload]
             ELSE parts[i]]
    ELSE Append(parts, [idx |-> chunkIdx, payload |-> payload])

\* Lines 122-123: chunkMap.get(packetNo).set(chunkIdx, payload), creating the
\* packet's Map first when it is missing.
ChunkMapSet(chunkMap, packetNo, chunkIdx, payload) ==
    IF \E i \in DOMAIN chunkMap : chunkMap[i].packetNo = packetNo
    THEN [i \in DOMAIN chunkMap |->
             IF chunkMap[i].packetNo = packetNo
             THEN [chunkMap[i] EXCEPT !.parts = MapSet(@, chunkIdx, payload)]
             ELSE chunkMap[i]]
    ELSE Append(chunkMap, [packetNo |-> packetNo,
                           parts |-> <<[idx |-> chunkIdx, payload |-> payload]>>])

\* chunkMap.delete(packetNo)
ChunkMapDelete(chunkMap, packetNo) ==
    SelectSeq(chunkMap, LAMBDA entry : entry.packetNo # packetNo)

\* Mutant of SortByIdx: the chunks stay in arrival order.
ArrivalOrder(parts) == parts

\* [...parts.entries()].sort((a, b) => a[0] - b[0])
RECURSIVE InsertByIdx(_, _)
InsertByIdx(sorted, part) ==
    IF sorted = <<>> THEN <<part>>
    ELSE IF Head(sorted).idx <= part.idx
         THEN <<Head(sorted)>> \o InsertByIdx(Tail(sorted), part)
         ELSE <<part>> \o sorted

RECURSIVE SortByIdx(_)
SortByIdx(parts) ==
    IF parts = <<>> THEN <<>>
    ELSE InsertByIdx(SortByIdx(SubSeq(parts, 1, Len(parts) - 1)), parts[Len(parts)])

\* One little-endian 16-bit sample.
ToInt16(lo, hi) ==
    IF lo + 256 * hi >= 32768 THEN lo + 256 * hi - 65536 ELSE lo + 256 * hi

\* new Int16Array(payload.buffer, payload.byteOffset, payload.byteLength / 2)
Int16ArrayOf(payload) ==
    [k \in 1..(Len(payload) \div 2) |-> ToInt16(payload[2 * k - 1], payload[2 * k])]

\* BLEService.flushBufferedPcm, lines 152-161.  An emitted audioChunk is
\* modelled by the joined samples handed to pcm16ToWavBase64.
FlushBufferedPcm(b) ==
    IF b.pcmBuffers = <<>> THEN b
    ELSE [b EXCEPT !.emitted = Append(@, ConcatAll(b.pcmBuffers)), !.pcmBuffers = <<>>]

\* The frame handler BLEService gives to monitorAudio, lines 119-139.  `due`
\* is whether flushIntervalMs have passed since the last flush.
OnFrame(b, payload, due) ==
    IF Len(payload) = 0 \/ ~b.isStreaming \/ Len(payload) % 2 # 0
    THEN b
    ELSE LET b1 == [b EXCEPT !.pcmBuffers = Append(@, Int16ArrayOf(payload))]
         IN IF due THEN FlushBufferedPcm(b1) ELSE b1

\* The parts of `packetNo` in the chunk map (none when it has no entry).
PartsOf(chunkMap, packetNo) ==
    IF \E i \in DOMAIN chunkMap : chunkMap[i].packetNo = packetNo
    THEN chunkMap[CHOOSE i \in DOMAIN chunkMap : chunkMap[i].packetNo = packetNo].parts
    ELSE <<>>

\* OmiClient.flush(packetNo), lines 141-151.
Flush(b, packetNo, due) ==
    LET parts == PartsOf(b.chunkMap, packetNo)
        ordered == SortByIdx(parts)
        out == ConcatAll([i \in DOMAIN ordered |-> ordered[i].payload])
    IN IF parts = <<>> THEN b
       ELSE LET b1 == [b EXCEPT !.chunkMap = ChunkMapDelete(@, packetNo),
                                !.flushed = Append(@, [packetNo |-> packetNo,
                                                       parts |-> parts, out |-> out])]
            IN IF b1.onFrame
               THEN OnFrame([b1 EXCEPT !.delivered = Append(@, out)], out, due)
               ELSE b1

\* The notification callback of monitorAudio, lines 115-131.
OnNotification(b, packetNo, chunkIdx, payload, due) ==
    LET b1 == [b EXCEPT !.chunkMap = ChunkMapSet(@, packetNo, chunkIdx, payload)]
    IN IF b1.currentPacketNo = NullPacket
       THEN [b1 EXCEPT !.currentPacketNo = packetNo]
       ELSE IF packetNo # b1.currentPacketNo
            THEN [Flush(b1, b1.currentPacketNo, due) EXCEPT !.currentPacketNo = packetNo]
            ELSE b1

\* OmiClient.monitorAudio(onFrame), lines 112-133.
MonitorAudio(b) == [b EXCEPT !.onFrame = TRUE, !.subscribed = TRUE]

\* OmiClient.stopMonitoring, lines 135-139.
StopMonitoring(b, due) ==
    LET b1 == [b EXCEPT !.subscribed = FALSE]
        b2 == IF b1.currentPacketNo # NullPacket
              THEN Flush(b1, b1.currentPacketNo, due) ELSE b1
    IN [b2 EXCEPT !.currentPacketNo = NullPacket]

\* BLEService.startAudioStream, lines 106-142.
StartAudioStream(b) ==
    IF b.isStreaming THEN b
    ELSE MonitorAudio([b EXCEPT !.isStreaming = TRUE, !.pcmBuffers = <<>>])

\* BLEService.stopAudioStream, lines 144-150.
StopAudioStream(b, due) ==
    IF ~b.isStreaming THEN b
    ELSE FlushBufferedPcm(StopMonitoring([b EXCEPT !.isStreaming = FALSE], due))

\* What a BLE notification can carry: [pn_lo, pn_hi, idx, ...payload].
PacketNos == {1, 2}
ChunkIdxs == {0, 1}
ChunkPayloads == {<<1, 0>>, <<254, 255>>, <<7>>}

BleStart ==
    /\ ~ble.isStreaming
    /\ ble' = StartAudioStream(ble)
    /\ store' = store
    /\ UNCHANGED_Relay

BleNotificationOf(packetNo, chunkIdx, payload, due) ==
    /\ ble.subscribed
    /\ ble.notifications < MaxNotifications
    /\ ble' = [OnNotification(ble, packetNo, chunkIdx, payload, due)
                  EXCEPT !.notifications = @ + 1]
    /\ store' = store
    /\ UNCHANGED_Relay

BleNotification ==
    \E packetNo \in PacketNos, chunkIdx \in ChunkIdxs, payload \in ChunkPayloads,
       due \in BOOLEAN :
        BleNotificationOf(packetNo, chunkIdx, payload, due)

BleStop ==
    /\ ble.isStreaming
    /\ \E due \in BOOLEAN : ble' = StopAudioStream(ble, due)
    /\ store' = store
    /\ UNCHANGED_Relay

NextBle == BleStart \/ BleNotification \/ BleStop

\* No stream started, nothing stored, no relay connection.
InitMobile == RelayIdle /\ MobileIdle

SpecBle == InitMobile /\ [][NextBle]_vars

\* ------------------------------------------- mobile: TranscriptStorageService
\* A stored list: `count` transcripts with ids count, count - 1, ..., 1, newest
\* first, as that many addTranscript calls leave it.
StoredList(count) == [i \in 1..count |-> [id |-> count + 1 - i, timestamp |-> <<"iso", 0>>]]

\* Date.prototype.toISOString throws a RangeError on an Invalid Date.
ToISOStringThrows(date) == date = InvalidDate

\* t.timestamp.toISOString(): the ISO text of a time value.
ToISOString(date) == <<"iso", date>>

\* new Date(t.timestamp) of a stored ISO text.
NewDate(iso) == IF Len(iso) = 2 /\ iso[1] = "iso" THEN iso[2] ELSE InvalidDate

\* Array.prototype.slice(0, n)
Slice0(list, n) == SubSeq(list, 1, IF Len(list) < n THEN Len(list) ELSE n)

\* saveTranscripts, lines 181-203: a throw inside the try leaves the item as
\* it was.
SaveTranscripts(st, transcripts) ==
    LET kept == Slice0(transcripts, MAX_STORED_TRANSCRIPTS)
    IN IF \E i \in DOMAIN kept : ToISOStringThrows(kept[i].timestamp)
       THEN st
       ELSE [st EXCEPT !.present = TRUE,
                       !.item = [i \in DOMAIN kept |->
                                    [id |-> kept[i].id,
                                     timestamp |-> ToISOString(kept[i].timestamp)]]]

\* loadTranscripts, lines 205-225.
LoadTranscripts(st) ==
    IF ~st.present THEN <<>>
    ELSE [i \in DOMAIN st.item |->
             [id |-> st.item[i].id, timestamp |-> NewDate(st.item[i].timestamp)]]

\* Mutant of AddTranscript: the new transcript is put last.
AddTranscriptLast(st, transcript) ==
    SaveTranscripts(st, Append(SelectSeq(LoadTranscripts(st),
                                         LAMBDA t : t.id # transcript.id), transcript))

\* addTranscript, lines 236-251.
AddTranscript(st, transcript) ==
    SaveTranscripts(st, <<transcript>> \o SelectSeq(LoadTranscripts(st),
                                                    LAMBDA t : t.id # transcript.id))

\* removeTranscript, lines 253-263.
RemoveTranscript(st, transcriptId) ==
    SaveTranscripts(st, SelectSeq(LoadTranscripts(st), LAMBDA t : t.id # transcriptId))

\* Ids and timestamps of the transcripts the app adds or removes; a Date can
\* be an Invalid Date.
TranscriptIds == {1, 2, MAX_STORED_TRANSCRIPTS, MAX_STORED_TRANSCRIPTS + 1}
Timestamps == {0, 1000, InvalidDate}

\* The item as earlier runs of the app left it: absent, short, or full.
InitStored ==
    /\ RelayIdle
    /\ ble = InitBle
    /\ \E count \in {0, 2, MAX_STORED_TRANSCRIPTS - 1, MAX_STORED_TRANSCRIPTS} :
          store = [item |-> StoredList(count), present |-> count > 0, ops |-> 0]

StoreAddOf(transcript) ==
    /\ store.ops < MaxStoreOps
    /\ store' = [AddTranscript(store, transcript) EXCEPT !.ops = @ + 1]
    /\ ble' = ble
    /\ UNCHANGED_Relay

StoreAdd ==
    \E id \in TranscriptIds, date \in Timestamps :
        StoreAddOf([id |-> id, timestamp |-> date])

StoreRemoveOf(transcriptId) ==
    /\ store.ops < MaxStoreOps
    /\ store' = [RemoveTranscript(store, transcriptId) EXCEPT !.ops = @ + 1]
    /\ ble' = ble
    /\ UNCHANGED_Relay

StoreRemove == \E id \in TranscriptIds : StoreRemoveOf(id)

NextStore == StoreAdd \/ StoreRemove

SpecStore == InitStored /\ [][NextStore]_vars

\* ================================================================ claims
\* The session is in the spec's Streaming state: a config was accepted and no
\* teardown has begun (closeWith closes the client socket first, the client's
\* own close sets state.closed).
Streaming ==
    /\ conn = "accepted"
    /\ ~state.null
    /\ state.configReceived
    /\ ~state.closed
    /\ ws.readyState = "OPEN"

\* Nothing is left to happen for this session: both sockets and the transcoder
\* are gone and no closeWith invocation is suspended.
Settled ==
    /\ conn = "accepted"
    /\ ws.closeEmitted
    /\ aai.status \in {"none", "CLOSED"}
    /\ ff.status \in {"none", "exited"}
    /\ cw = EmptyBag

\* The client socket closed while the relay had not called close() on it: the
\* client closed the connection, or it was lost.
ClientClosedFirst == conn = "accepted" /\ ws.closeEmitted /\ ws.code = 0

HasFinalMessage == \E i \in DOMAIN clientOut : clientOut[i].type = "final"

\* C1: in every run of one session, whatever stop messages, vendor errors,
\* transcoder exits and close events occur, endSession is invoked at most once
\* and the transcoder is force-killed at most once.
C1_TeardownOnce == sink.endCalls <= 1 /\ ff.kills <= 1

\* C2: when the client connection closes without a stop while the session is
\* Streaming, the session has gone through the whole teardown by the time it
\* has settled: transcoder killed, vendor socket closed, the transcript
\* archived when a final exists and an archive is configured, endSession
\* invoked.
C2_ClientCloseTearsDown ==
    (ClientClosedFirst /\ aai.created > 0 /\ Settled) =>
        /\ sink.endCalls >= 1
        /\ ff.spawned > 0 => ff.kills >= 1
        /\ (env.zeKey /\ appended # <<>>) => sink.docs # <<>>

\* C3: after a binary first message the connection is closed with 4401
\* 'Expected config' and no vendor client is ever created, whatever the
\* client sends afterwards.
C3_BinaryFirstNoVendor ==
    ws.reason = "Expected config" => (ws.code = CodeUnauthorized /\ aai.created = 0)

\* C4: every teardown step runs even when an earlier one fails: once closeWith
\* has been called on a Streaming session (by a stop or a fatal error) and no
\* invocation is suspended any more, the transcoder was killed, the vendor
\* socket closed and endSession invoked.
C4_AllStepsRun ==
    (conn = "accepted" /\ ws.code \in {CodeNormal, CodeVendor} /\ cw = EmptyBag) =>
        /\ sink.endCalls >= 1
        /\ ff.status # "running"
        /\ aai.status \notin {"CONNECTING", "OPEN"}

\* A fatal session error is delivered: a vendor error message, a vendor
\* transport error, a failed transcoder launch or a transcoder exit with a
\* nonzero status.
FatalStep ==
    \/ VendorErrorMessage
    \/ VendorTransportError
    \/ FfErrorEvent
    \/ \E code \in {1, SignalCode, LaunchFailCode} : FfCloseOf(code)

\* What the step that starts the teardown of a Streaming session has done when
\* it returns: client socket closing with `code`, transcoder killed, vendor
\* socket no longer open, and either the archive begun with every final so far
\* (`archives`) or endSession invoked.
TornDown(code, archives) ==
    /\ ws'.readyState = "CLOSING"
    /\ ws'.code = code
    /\ state.ffmpeg => (ff'.kills = ff.kills + 1 /\ ff'.status # "running")
    /\ aai'.status \notin {"CONNECTING", "OPEN"}
    /\ IF archives
       THEN \E e \in BagToSet(cw') : e.pc = "collAdd" /\ e.n = Len(state.finals)
       ELSE sink'.endCalls = sink.endCalls + 1

\* A closeWith(4501) that was called on the Streaming session has run to its end.
VendorTeardownDone == conn = "accepted" /\ ws.code = CodeVendor /\ cw = EmptyBag

\* C5 (as amended): each fatal error during Streaming runs the teardown path:
\* close code 4501, transcoder killed, vendor socket closed, and once closeWith
\* has finished endSession was invoked and, when finals existed and a
\* ZeroEntropy key is configured, the transcript was handed to the archive.
C5_FatalErrorTearsDown ==
    /\ [][(Streaming /\ FatalStep) =>
            TornDown(CodeVendor, env.zeKey /\ state.finals # <<>>)]_vars
    /\ [](VendorTeardownDone =>
            /\ sink.endCalls >= 1
            /\ (env.zeKey /\ HasFinalMessage) => sink.docs # <<>>)

\* C5 as claimed: the transcript is archived whenever finals exist.
C5_FatalErrorArchives ==
    /\ [][(Streaming /\ FatalStep) => TornDown(CodeVendor, state.finals # <<>>)]_vars
    /\ [](VendorTeardownDone =>
            /\ sink.endCalls >= 1
            /\ HasFinalMessage => sink.docs # <<>>)

\* A fatal error has torn a session with a final segment down, and the archive
\* and endSession calls have been made.
C5_Witness ==
    /\ VendorTeardownDone
    /\ HasFinalMessage
    /\ sink.docs # <<>>
    /\ sink.endCalls >= 1
    /\ ff.kills >= 1

\* C6: when the vendor socket closes without an error during Streaming, the
\* session does not remain in Streaming.
C6_VendorDropEndsSession == aai.status = "CLOSED" => ~Streaming

\* The texts joined with single spaces, built from the left.
RECURSIVE SpaceJoined(_, _)
SpaceJoined(texts, k) ==
    IF k = 0 THEN <<>>
    ELSE IF k = 1 THEN texts[1]
    ELSE SpaceJoined(texts, k - 1) \o <<" ">> \o texts[k]

Orderings(n) == {p \in [1..n -> 1..n] : \A i, j \in 1..n : i # j => p[i] # p[j]}

\* C7: every archived transcript is the texts of all the segments that were in
\* finalized_segments when the teardown began, in an order of nondecreasing
\* start_ms, joined with single spaces, whatever order they were delivered in.
C7_ArchiveSortedByStart ==
    \A d \in DOMAIN sink.docs :
        LET n == sink.docs[d].n
        IN /\ n >= 1
           /\ n <= Len(appended)
           /\ \E p \in Orderings(n) :
                 /\ \A i \in 1..(n - 1) :
                       appended[p[i]].start_ms <= appended[p[i + 1]].start_ms
                 /\ sink.docs[d].text =
                       SpaceJoined([i \in 1..n |-> appended[p[i]].text], n)

\* A transcript was archived whose segments had been delivered out of order.
C7_Witness ==
    \E d \in DOMAIN sink.docs :
        /\ sink.docs[d].n = 2
        /\ appended[1].start_ms > appended[2].start_ms
        /\ appended[1].text # appended[2].text

\* C8: every segment appended to finalized_segments has start_ms <= end_ms.
C8_SegmentOrdered ==
    \A i \in DOMAIN appended : appended[i].start_ms <= appended[i].end_ms

\* The segment and the client message a final event must produce.
ExpectedSegment(ev) ==
    [text |-> ev.text,
     start_ms |-> IF ev.audio_start = Absent THEN 0 ELSE ev.audio_start,
     end_ms |-> IF ev.audio_end = Absent THEN 0 ELSE ev.audio_end]

ExpectedFinalMessage(ev) ==
    [type |-> "final", text |-> ev.text,
     start_ms |-> IF ev.audio_start = Absent THEN 0 ELSE ev.audio_start,
     end_ms |-> IF ev.audio_end = Absent THEN 0 ELSE ev.audio_end]

\* What a final event received during Streaming does: one segment appended,
\* one 'final' message sent and, when `persists`, one addFinalSegment call with
\* the same fields (none otherwise).
FinalHandled(ev, persists) ==
    /\ state'.finals = Append(state.finals, ExpectedSegment(ev))
    /\ clientOut' = Append(clientOut, ExpectedFinalMessage(ev))
    /\ sink'.addFinal = IF persists THEN Append(sink.addFinal, ExpectedSegment(ev))
                        ELSE sink.addFinal

\* C9 (as amended): for every vendor final event received during Streaming,
\* exactly one segment with the event's text, start and end is appended, exactly
\* one 'final' message with the same fields is sent to the client, and
\* addFinalSegment is invoked once with the same fields when Supabase is
\* configured (and not at all when it is not).
C9_FinalHandledOnce ==
    [][\A ev \in VendorEvents, ok \in BOOLEAN :
          (Streaming /\ VendorFinalOf(ev, ok)) => FinalHandled(ev, env.supabase)]_vars

\* C9 as claimed: addFinalSegment is invoked for every final event.
C9_FinalAlwaysPersisted ==
    [][\A ev \in VendorEvents, ok \in BOOLEAN :
          (Streaming /\ VendorFinalOf(ev, ok)) => FinalHandled(ev, TRUE)]_vars

\* A final event was received during Streaming, sent on and persisted.
C9_Witness ==
    /\ Streaming
    /\ state.finals # <<>>
    /\ HasFinalMessage
    /\ sink.addFinal = state.finals

\* C10: a rejected persistence call (startSession, addFinalSegment, the two
\* archive calls, endSession) leaves the session exactly where the fulfilled
\* call leaves it: the step taken on rejection is the step taken on success,
\* a Streaming session stays Streaming, and the continuation of a rejected
\* awaited call touches neither socket, the transcoder nor the client's output.
C10_PersistenceFailureInvisible ==
    [][/\ \A launched \in BOOLEAN :
             VendorOpenOf(launched, FALSE) =>
                 (VendorOpenOf(launched, TRUE) /\ (Streaming => Streaming'))
       /\ \A ev \in VendorEvents :
             VendorFinalOf(ev, FALSE) =>
                 (VendorFinalOf(ev, TRUE) /\ (Streaming => Streaming'))
       /\ \A e \in BagToSet(cw) :
             ResumeOf(e, FALSE) =>
                 (ResumeOf(e, TRUE) /\ UNCHANGED <<ws, aai, ff, clientOut>>)]_vars

\* A persistence call has been rejected and the session is still Streaming,
\* with a vendor socket that is open and a forwarder installed.
C10_Witness ==
    /\ failed
    /\ Streaming
    /\ aai.status = "OPEN"
    /\ state.pcmForwarder # "none"
    /\ sink.addFinal # <<>>

\* The relay closes the client connection in this step.
RelayCloses == ws.code = 0 /\ ws'.code # 0

\* A client message arrives that cannot be accepted as the first message.
SetupViolation ==
    /\ ~state.null
    /\ ~state.configReceived
    /\ \E kind \in {"binary", "garbage", "stop"} : ClientMessageOf(kind)

\* C11: whenever the relay closes the client connection the code is 1000
\* exactly when an explicit stop began the teardown, 4401 exactly when the
\* connection is closed before a config was accepted and 4501 exactly when a
\* vendor or transcoder failure ended a Streaming session; each of these causes
\* closes an open connection with its code, and the code of a closed connection
\* never changes, whatever the teardown provokes afterwards.
C11_CloseCodeByCause ==
    /\ [][RelayCloses =>
            /\ (ws'.code = CodeNormal) <=> (Streaming /\ ClientMessageOf("stop"))
            /\ (ws'.code = CodeUnauthorized) <=> (conn = "pending" \/ SetupViolation)
            /\ (ws'.code = CodeVendor) <=> (Streaming /\ FatalStep)]_vars
    /\ [][(Streaming /\ (ClientMessageOf("stop") \/ FatalStep)) => RelayCloses]_vars
    /\ [][(ws.readyState = "OPEN" /\ SetupViolation) => RelayCloses]_vars
    /\ [][ws.code # 0 => ws'.code = ws.code]_vars

\* A session ended by stop: the killed transcoder has exited, which called
\* closeWith(4501) a second time, and the client still sees 1000.
C11_Witness ==
    /\ ws.code = CodeNormal
    /\ ws.reason = "normal"
    /\ ~ws.closeEmitted
    /\ ff.kills >= 1
    /\ ff.status = "exited"
    /\ sink.endCalls = 2

\* Nothing was created or persisted for this connection.
NoSession ==
    /\ state.null
    /\ aai.created = 0
    /\ ff.spawned = 0
    /\ sink = [startCalls |-> 0, addFinal |-> <<>>, docs |-> <<>>, endCalls |-> 0]
    /\ cw = EmptyBag
    /\ clientOut = <<>>

\* C12: a connection without a token, or with a token whose verification
\* fails, is closed with 4401 and has no session: no vendor client, no
\* transcoder and no persistence call, ever.
C12_BadTokenRejected ==
    (env.token \in {"none", "invalid"} /\ conn # "pending") =>
        /\ conn = "rejected"
        /\ ws.code = CodeUnauthorized
        /\ NoSession

\* A connection whose token failed verification has been closed.
C12_Witness ==
    /\ env.token = "invalid"
    /\ conn = "rejected"
    /\ ws.readyState = "CLOSING"
    /\ ws.reason = "Unauthorized"

\* C13: a token with a good signature and expiry but a malformed payload is
\* rejected like a bad signature: closed with 4401, no session created.
C13_MalformedPayloadRejected ==
    (env.token = "malformed" /\ conn # "pending") =>
        /\ conn = "rejected"
        /\ ws.code = CodeUnauthorized
        /\ NoSession

\* C14: after a first text message that fails config validation the
\* connection is closed with 4401 'Bad config' and no vendor client or
\* transcoder is ever created.
C14_BadConfigNoVendor ==
    ws.reason = "Bad config" =>
        /\ ws.code = CodeUnauthorized
        /\ aai.created = 0
        /\ ff.spawned = 0

\* C15: at most one config is accepted per session: a config-shaped message
\* that arrives after a config was accepted changes nothing, and no second
\* vendor client or transcoder is ever created.
C15_SingleConfig ==
    /\ [](aai.created <= 1 /\ ff.spawned <= 1)
    /\ [][\A kind \in {"config_pcm16", "config_opus", "config_opus_bare"} :
             (~state.null /\ state.configReceived /\ ClientMessageOf(kind)) =>
                 UNCHANGED vars]_vars

\* A Streaming session with its vendor socket open to which the client can
\* send a second config.
C15_Witness ==
    /\ Streaming
    /\ aai.created = 1
    /\ aai.status = "OPEN"
    /\ state.pcmForwarder # "none"
    /\ nMsgs < MaxMsgs

\* C16: once the client connection has closed, or a stop was handled, no
\* transcoder process is running and the vendor connection is not open, at
\* that point and ever after.
C16_ClosedMeansStopped ==
    (conn = "accepted" /\ (ws.closeEmitted \/ ws.code = CodeNormal)) =>
        /\ ff.status # "running"
        /\ aai.status \notin {"CONNECTING", "OPEN"}

\* What a stop received in Streaming does: the termination message is handed
\* to the vendor socket (`sends`) or not, that socket is then closed, and the
\* client connection is closed with 1000.
StopHandled(sends) ==
    /\ aai'.sent = IF sends THEN Append(aai.sent, Terminate) ELSE aai.sent
    /\ aai'.status \notin {"CONNECTING", "OPEN"}
    /\ ws'.readyState = "CLOSING"
    /\ ws'.code = CodeNormal

\* C17 (as amended): on a stop received in Streaming the termination message
\* is sent to the vendor before its connection is closed when that connection
\* is open; when it has not finished opening (or is already closing) nothing
\* is sent.  Either way the vendor connection is closed and the client
\* connection is closed with 1000.
C17_StopTerminatesOpenVendor ==
    [][(Streaming /\ ClientMessageOf("stop")) => StopHandled(aai.status = "OPEN")]_vars

\* C17 as claimed: the termination message is sent whether or not the vendor
\* connection has finished opening.
C17_StopAlwaysTerminates ==
    [][(Streaming /\ ClientMessageOf("stop")) =>
          StopHandled(aai.status \in {"CONNECTING", "OPEN"})]_vars

\* A stop was handled while the vendor socket was open: the termination
\* message is the last thing that socket was given.
C17_Witness ==
    /\ ws.code = CodeNormal
    /\ aai.sent # <<>>
    /\ aai.sent[Len(aai.sent)] = Terminate
    /\ aai.status = "CLOSING"

\* C18: on the opus path every PCM frame forwarded to the vendor is exactly
\* 640 bytes, except possibly the last one.
C18_FullFramesButLast ==
    \A i \in 1..(Len(aai.sent) - 1) :
        aai.sent[i].type = "audio" => aai.sent[i].data = FrameBytes

\* Audio frames handed to the vendor socket.  A blocked vendor reads none of
\* them: they all stay queued between the client and the vendor.
QueuedFrames == {i \in DOMAIN aai.sent : aai.sent[i].type = "audio"}

\* C19: the number of frames queued between the client socket and a blocked
\* vendor stays below the number of frames the client has sent: some bound
\* makes the relay drop or hold back.
C19_QueueBounded == Cardinality(QueuedFrames) < MaxMsgs - 1

\* The messages a partial and a final event put on the client socket.
PartialMessage(ev) ==
    [type |-> "partial", text |-> ev.text,
     start_ms |-> IF ev.audio_start = Absent THEN 0 ELSE ev.audio_start,
     end_ms |-> IF ev.audio_end = Absent THEN 0 ELSE ev.audio_end]

\* C20: the partial and final messages reach the client in the order in which
\* the vendor emitted their events: each message is put behind all earlier
\* ones in the very step that delivers its event, one per event, and no other
\* step sends a transcript message.
C20_EventsInOrder ==
    /\ [][\A ev \in VendorEvents :
             /\ (Streaming /\ VendorPartialOf(ev)) =>
                    clientOut' = Append(clientOut, PartialMessage(ev))
             /\ \A ok \in BOOLEAN :
                    (Streaming /\ VendorFinalOf(ev, ok)) =>
                        clientOut' = Append(clientOut, ExpectedFinalMessage(ev))]_vars
    /\ [][clientOut' # clientOut =>
             \E ev \in VendorEvents :
                 \/ VendorPartialOf(ev) /\ clientOut' = Append(clientOut, PartialMessage(ev))
                 \/ \E ok \in BOOLEAN :
                        /\ VendorFinalOf(ev, ok)
                        /\ clientOut' = Append(clientOut, ExpectedFinalMessage(ev))]_vars

\* The client has received a final and then a partial for different events.
C20_Witness ==
    /\ Len(clientOut) = 2
    /\ clientOut[1].type = "final"
    /\ clientOut[2].type = "partial"
    /\ clientOut[1].text # clientOut[2].text

\* The bytes that a sequence of base64 digits stands for.
RECURSIVE Base64Decode(_)
Base64Decode(digits) ==
    IF Len(digits) < 4 THEN <<>>
    ELSE LET c == SubSeq(digits, 1, 4)
             b1 == c[1] * 4 + (c[2] \div 16)
             b2 == (c[2] % 16) * 16 + (c[3] \div 4)
             b3 == (c[3] % 4) * 64 + c[4]
             group == IF c[3] = Base64Pad THEN <<b1>>
                      ELSE IF c[4] = Base64Pad THEN <<b1, b2>>
                      ELSE <<b1, b2, b3>>
         IN group \o Base64Decode(SubSeq(digits, 5, Len(digits)))

\* C21: with encoding pcm16 no transcoder is ever spawned, and each binary
\* frame received in Streaming while the vendor connection is open puts
\* exactly one audio message carrying the same bytes behind everything sent to
\* the vendor before; a transcoder exists only when the accepted config has
\* encoding opus.
C21_Pcm16Direct ==
    /\ [](aai.encoding = "pcm16" => (ff.spawned = 0 /\ ff.status = "none" /\ ff.stdin = <<>>))
    /\ [](ff.spawned > 0 => aai.encoding = "opus")
    /\ [][(Streaming /\ aai.status = "OPEN" /\ aai.encoding = "pcm16"
             /\ ClientMessageOf("binary")) =>
            /\ Len(aai'.sent) = Len(aai.sent) + 1
            /\ SubSeq(aai'.sent, 1, Len(aai.sent)) = aai.sent
            /\ aai'.sent[Len(aai'.sent)].type = "audio"
            /\ Base64Decode(aai'.sent[Len(aai'.sent)].data) = ClientFrame(nMsgs + 1)
            /\ UNCHANGED ff]_vars

\* Two frames of different lengths were forwarded on the pcm16 path.
C21_Witness ==
    /\ aai.encoding = "pcm16"
    /\ Len(aai.sent) = 2
    /\ aai.sent[1].type = "audio"
    /\ aai.sent[2].type = "audio"
    /\ Len(Base64Decode(aai.sent[1].data)) # Len(Base64Decode(aai.sent[2].data))

\* C22: after the config is accepted a text message that is not JSON or whose
\* type is not 'stop' is ignored: nothing changes and nothing is sent.
C22_OtherTextIgnored ==
    [][\A kind \in MsgKinds \ {"binary", "stop"} :
          (~state.null /\ ~state.closed /\ state.configReceived /\ ClientMessageOf(kind)) =>
              UNCHANGED vars]_vars

\* A Streaming session with finals and an open vendor socket that can still
\* receive such a text message.
C22_Witness ==
    /\ Streaming
    /\ aai.status = "OPEN"
    /\ state.finals # <<>>
    /\ nMsgs < MaxMsgs

\* C23: the transcript of a session is archived at most once, and never when
\* there is no final segment, however often the teardown is triggered.
C23_ArchivedOnce ==
    /\ Len(sink.docs) <= 1
    /\ sink.docs # <<>> => appended # <<>>

\* C24: the error transition fires at most once per session: once the session
\* was closed with 4501, a further vendor error message or transport error
\* starts no teardown again (nothing is killed, closed or persisted again).
C24_ErrorOnce ==
    [][(ws.code = CodeVendor /\ (VendorErrorMessage \/ VendorTransportError)) =>
          UNCHANGED <<sink, ff, cw>>]_vars

\* C25: a vendor partial event during Streaming sends one 'partial' message to
\* the client and leaves the finals, the session flags and the persistence
\* sink untouched.
C25_PartialOnlySends ==
    [][\A ev \in VendorEvents :
          (Streaming /\ VendorPartialOf(ev)) =>
              /\ clientOut' = Append(clientOut, PartialMessage(ev))
              /\ UNCHANGED <<state, appended, sink, cw, ws, aai, ff>>]_vars

\* A partial was sent to the client of a Streaming session that has no
\* segment and persisted nothing.
C25_Witness ==
    /\ Streaming
    /\ Len(clientOut) = 1
    /\ clientOut[1].type = "partial"
    /\ state.finals = <<>>
    /\ sink.addFinal = <<>>

\* C26: over the lifetime of a session at most one vendor client and at most
\* one transcoder are created, the transcoder only for a vendor client that
\* exists, and neither count moves once the vendor socket has closed.
C26_OneVendorOneTranscoder ==
    /\ [](aai.created <= 1 /\ ff.spawned <= aai.created)
    /\ [][aai.status = "CLOSED" => UNCHANGED <<aai.created, ff.spawned>>]_vars

\* A session that a vendor error ended and that took every later message and
\* vendor event still has its one vendor client and one transcoder.
C26_Witness ==
    /\ ws.code = CodeVendor
    /\ aai.created = 1
    /\ ff.spawned = 1
    /\ aai.status = "CLOSED"
    /\ nMsgs = MaxMsgs
    /\ nVendor = MaxVendorEvents

\* C27: a config with encoding opus and no container is rejected as a bad
\* config: the connection is closed with 4401 and no vendor client is created.
C27_OpusNeedsContainer ==
    [][(~state.null /\ ~state.configReceived /\ ClientMessageOf("config_opus_bare")) =>
          (ws'.code = CodeUnauthorized /\ aai'.created = aai.created)]_vars

\* The teardown of an accepted session has run to its end.
TeardownOver == conn = "accepted" /\ state.null /\ cw = EmptyBag

\* C29: every final event that was sent to the client or persisted with
\* addFinalSegment is in the transcript archived at the end of a session that
\* a stop ended (when an archive is configured): the last archived document
\* holds as many segments as were sent and as were persisted.
C29_FinalsArchived ==
    (TeardownOver /\ ws.code = CodeNormal /\ env.zeKey
       /\ (HasFinalMessage \/ sink.addFinal # <<>>)) =>
        /\ sink.docs # <<>>
        /\ sink.docs[Len(sink.docs)].n >= Len(sink.addFinal)
        /\ sink.docs[Len(sink.docs)].n >=
               Cardinality({i \in DOMAIN clientOut : clientOut[i].type = "final"})

\* C30: once closeWith has been called for a session no later client message
\* has any effect: nothing is forwarded, no config accepted, no vendor client
\* created and no further teardown started.
C30_NoEffectAfterTeardown ==
    [][(conn = "accepted" /\ ws.code # 0 /\ \E kind \in MsgKinds : ClientMessageOf(kind)) =>
          UNCHANGED <<state, aai, ff, sink, cw>>]_vars

\* The text tokens of the vendor socket of connection `s`, and the separator.
OwnTokens(s) == {PairEvent(s).text[1], " "}

C31_EndOnlyAfterStart == (env.supabase /\ sink.endCalls > 0) => sink.startCalls > 0

AudioOf(sent) == SelectSeq(sent, LAMBDA msg : msg.type = "audio")

Covers(subs, pcmLength) ==
    /\ subs # <<>>
    /\ subs[1].from = 0
    /\ subs[Len(subs)].to = pcmLength
    /\ \A k \in DOMAIN subs : (subs[k].to - subs[k].from) \in 1..FrameBytes
    /\ \A k \in 1..(Len(subs) - 1) : subs[k + 1].from = subs[k].to

\* C33: the frame splitter neither loses, duplicates nor reorders bytes: the
\* frames it cuts from a chunk cover the chunk in order, each has 1 to 640
\* bytes, and an open vendor connection receives exactly these frames after
\* the frames of the earlier chunks.
C33_SplitterConserves ==
    [][\A pcmLength \in ChunkLengths :
          FfStdoutDataOf(pcmLength) =>
              LET subs == Subarrays(0, pcmLength)
                  new == SubSeq(aai'.sent, Len(aai.sent) + 1, Len(aai'.sent))
              IN /\ Covers(subs, pcmLength)
                 /\ SubSeq(aai'.sent, 1, Len(aai.sent)) = aai.sent
                 /\ new = IF aai.status = "OPEN"
                          THEN [k \in DOMAIN subs |->
                                   [type |-> "audio", data |-> subs[k].to - subs[k].from]]
                          ELSE <<>>]_vars

C33_Witness ==
    /\ Len(aai.sent) = 3
    /\ aai.sent[1] = [type |-> "audio", data |-> 320]
    /\ aai.sent[2] = [type |-> "audio", data |-> FrameBytes]
    /\ aai.sent[3] = [type |-> "audio", data |-> 1000 - FrameBytes]

\* The samples BLEService takes from a frame: none from an empty frame or one
\* with an odd number of bytes.
SamplesOf(frame) == IF Len(frame) % 2 # 0 THEN <<>> ELSE Int16ArrayOf(frame)

\* C34: once the stream is stopped, the samples of the emitted audioChunk
\* events are exactly the samples of all the frames OmiClient delivered,
\* the frame flushed inside stopMonitoring included.
C34_NoAudioLost ==
    ~ble.isStreaming =>
        ConcatAll(ble.emitted)
            = ConcatAll([i \in DOMAIN ble.delivered |-> SamplesOf(ble.delivered[i])])

\* `out` is the payloads of `parts` one after the other in ascending index.
AscendingConcat(out, parts) ==
    \E order \in [DOMAIN parts -> DOMAIN parts] :
        /\ \A i, j \in DOMAIN parts : i < j => parts[order[i]].idx < parts[order[j]].idx
        /\ out = ConcatAll([k \in DOMAIN parts |-> parts[order[k]].payload])

\* C35: the chunk map holds chunks of at most one packet number, the current
\* one; every frame emitted is its packet's chunks in ascending chunk index;
\* after stopMonitoring the map is empty and the current packet number is null.
C35_ChunkMapOnePacket ==
    /\ Len(ble.chunkMap) <= 1
    /\ \A i \in DOMAIN ble.chunkMap :
          /\ ble.chunkMap[i].packetNo = ble.currentPacketNo
          /\ ble.chunkMap[i].parts # <<>>
    /\ \A i \in DOMAIN ble.flushed :
          AscendingConcat(ble.flushed[i].out, ble.flushed[i].parts)
    /\ ~ble.subscribed => (ble.chunkMap = <<>> /\ ble.currentPacketNo = NullPacket)

C35_Witness ==
    /\ ~ble.subscribed
    /\ ble.notifications = MaxNotifications
    /\ \E i \in DOMAIN ble.flushed :
          /\ Len(ble.flushed[i].parts) = 2
          /\ ble.flushed[i].parts[1].idx > ble.flushed[i].parts[2].idx
          /\ ble.flushed[i].parts[1].payload # ble.flushed[i].parts[2].payload

\* C36: the stored list never has more than 100 entries nor two entries with
\* the same id; right after addTranscript(t) the entry t is first; and
\* removeTranscript(id) leaves the other entries and their order unchanged.
C36_StoredList ==
    /\ [](/\ Len(store.item) <= MAX_STORED_TRANSCRIPTS
          /\ \A i, j \in DOMAIN store.item :
                store.item[i].id = store.item[j].id => i = j)
    /\ [][\A id \in TranscriptIds, date \in Timestamps :
            StoreAddOf([id |-> id, timestamp |-> date]) =>
                /\ store'.item # <<>>
                /\ store'.item[1].id = id
                /\ NewDate(store'.item[1].timestamp) = date]_vars
    /\ [][\A id \in TranscriptIds :
            StoreRemoveOf(id) =>
                store'.item = SelectSeq(store.item, LAMBDA t : t.id # id)]_vars

====
